---- MODULE Spec2Model ----
(***************************************************************************)
(* Analytic ray solutions for the Pedersen n^2 linear profile              *)
(* (usml/pedersen.py): PedersenCartesian and PedersenSpherical, their      *)
(* sound_speed, vertex_diff, range_integrand, time_integrand,              *)
(* analytic_cycle and eigenrays.                                           *)
(*                                                                         *)
(* Numbers.  The code computes in IEEE doubles.  Here a real x is the      *)
(* integer nearest to x * Q (fixed point, round to nearest), with          *)
(*   lengths in km        (one unit = 0.1 m),                              *)
(*   speeds in km/s       (one unit = 0.1 m/s),                            *)
(*   times in s           (one unit = 0.1 ms),                             *)
(*   angles in degrees    (one unit = 0.01 degree, scale AQ) .             *)
(* A value that is not finite (the square root of a negative number, a     *)
(* division by zero, and everything computed from one) is NaN.             *)
(***************************************************************************)
EXTENDS Integers, Sequences, FiniteSets, TLC

\* ------------------------------------------------------------------------
\* float64 arithmetic, as fixed point

Q == 10000
AQ == 100
MaxInt == 2147483647
NaN == 0 - MaxInt

IsNaN(x) == x = NaN

Abs(x) == IF x < 0 THEN 0 - x ELSE x

Sign(x) == IF x > 0 THEN 1 ELSE IF x < 0 THEN 0 - 1 ELSE 0

\* a / b for b > 0, rounded to nearest
RDiv(a, b) == IF a >= 0 THEN (a + b \div 2) \div b
                        ELSE 0 - (((0 - a) + b \div 2) \div b)

\* float product a * b
FMul(a, b) == IF IsNaN(a) \/ IsNaN(b) THEN NaN ELSE RDiv(a * b, Q)

\* float quotient a / b; x / 0 is not finite.  A numerator too large to be
\* scaled at once is divided in two steps (long division).
FDiv(a, b) ==
  IF IsNaN(a) \/ IsNaN(b) \/ b = 0 THEN NaN
  ELSE LET s  == Sign(a) * Sign(b)
           n  == Abs(a)
           d  == Abs(b)
       IN IF n <= MaxInt \div (2 * Q)
          THEN s * RDiv(n * Q, d)
          ELSE s * ((n \div d) * Q + RDiv((n % d) * Q, d))

RECURSIVE Newton(_, _)
Newton(v, r) == LET r2 == (r + v \div r) \div 2
                IN IF r2 >= r THEN r ELSE Newton(v, r2)

\* floor of the square root of v >= 0
ISqrt(v) == IF v = 0 THEN 0
            ELSE Newton(v, IF v < 4096 THEN 64
                           ELSE IF v < 1048576 THEN 1024
                           ELSE IF v < 268435456 THEN 16384 ELSE 46341)

\* np.sqrt: the square root of a negative number is nan
FSqrt(x) == IF IsNaN(x) \/ x < 0 THEN NaN
            ELSE LET v == x * Q
                     r == ISqrt(v)
                 IN IF v - r * r > r THEN r + 1 ELSE r

FAdd(a, b) == IF IsNaN(a) \/ IsNaN(b) THEN NaN ELSE a + b

FSub(a, b) == IF IsNaN(a) \/ IsNaN(b) THEN NaN ELSE a - b

\* comparisons with nan are False
FLess(a, b) == ~IsNaN(a) /\ ~IsNaN(b) /\ a < b

FLeq(a, b) == ~IsNaN(a) /\ ~IsNaN(b) /\ a <= b

\* cos of a whole number of degrees, 0..91, times Q
CosTable ==
  << 10000, 9998, 9994, 9986, 9976, 9962, 9945, 9925, 9903, 9877,
     9848, 9816, 9781, 9744, 9703, 9659, 9613, 9563, 9511, 9455,
     9397, 9336, 9272, 9205, 9135, 9063, 8988, 8910, 8829, 8746,
     8660, 8572, 8480, 8387, 8290, 8192, 8090, 7986, 7880, 7771,
     7660, 7547, 7431, 7314, 7193, 7071, 6947, 6820, 6691, 6561,
     6428, 6293, 6157, 6018, 5878, 5736, 5592, 5446, 5299, 5150,
     5000, 4848, 4695, 4540, 4384, 4226, 4067, 3907, 3746, 3584,
     3420, 3256, 3090, 2924, 2756, 2588, 2419, 2250, 2079, 1908,
     1736, 1564, 1392, 1219, 1045, 872, 698, 523, 349, 175, 0, 0 - 175 >>

\* np.cos(np.radians(a)) for -90 <= a <= 90 degrees: the table, linearly
\* interpolated between whole degrees
CosDeg(a) ==
  LET m == Abs(a)
      d == m \div AQ
      f == m % AQ
  IN CosTable[d + 1] + RDiv((CosTable[d + 2] - CosTable[d + 1]) * f, AQ)

\* np.degrees(np.arccos(x)): the inverse of CosDeg for -1 <= x <= 1, nan
\* outside
ArccosDeg(x) ==
  LET y == Abs(x)
      d == CHOOSE k \in 0..89 : CosTable[k + 1] > y /\ y >= CosTable[k + 2]
      a == d * AQ + RDiv((CosTable[d + 1] - y) * AQ, CosTable[d + 1] - CosTable[d + 2])
  IN IF IsNaN(x) \/ y > Q THEN NaN
     ELSE IF y = Q THEN (IF x > 0 THEN 0 ELSE 180 * AQ)
     ELSE IF x >= 0 THEN a ELSE 180 * AQ - a

\* ------------------------------------------------------------------------
\* The ocean profile objects (PedersenCartesian.__init__, PedersenSpherical.__init__)

surface_speed_default == 15500
surface_grad_default == 12000
\* the radius of curvature the Spherical model is constructed with (10 km)
earth_radius_config == 100000

PedersenCartesian ==
  [class |-> "Cartesian", surface_speed |-> surface_speed_default,
   surface_grad |-> surface_grad_default, earth_radius |-> 0]

PedersenSpherical ==
  [class |-> "Spherical", surface_speed |-> surface_speed_default,
   surface_grad |-> surface_grad_default, earth_radius |-> earth_radius_config]

\* surface_speed / sqrt(1 + 2 * surface_grad / surface_speed * depth)
n2_linear(self, depth) ==
  FDiv(self.surface_speed,
       FSqrt(Q + FMul(FDiv(2 * self.surface_grad, self.surface_speed), depth)))

cart_sound_speed(self, depth) == n2_linear(self, depth)

sphr_sound_speed(self, radius) ==
  FDiv(FMul(n2_linear(self, self.earth_radius - radius), radius), self.earth_radius)

sound_speed(self, pos) ==
  IF self.class = "Cartesian" THEN cart_sound_speed(self, pos)
                              ELSE sphr_sound_speed(self, pos)

\* ray_param * sound_speed(depth), the cosine of the ray angle at a position
cart_cosine(self, depth, ray_param) == FMul(ray_param, cart_sound_speed(self, depth))

sphr_cosine(self, radius, ray_param) ==
  FDiv(FMul(ray_param, sphr_sound_speed(self, radius)), radius)

cart_vertex_diff(self, depth, ray_param) == FSub(Q, cart_cosine(self, depth, ray_param))

sphr_vertex_diff(self, radius, ray_param) == FSub(Q, sphr_cosine(self, radius, ray_param))

vertex_diff(self, pos, ray_param) ==
  IF self.class = "Cartesian" THEN cart_vertex_diff(self, pos, ray_param)
                              ELSE sphr_vertex_diff(self, pos, ray_param)

\* cosine / sqrt(1 - cosine * cosine)
cart_range_integrand(self, depth, ray_param) ==
  LET cosine == cart_cosine(self, depth, ray_param)
  IN FDiv(cosine, FSqrt(FSub(Q, FMul(cosine, cosine))))

\* cosine / sqrt(1 - cosine * cosine) / radius
sphr_range_integrand(self, radius, ray_param) ==
  LET cosine == sphr_cosine(self, radius, ray_param)
  IN FDiv(FDiv(cosine, FSqrt(FSub(Q, FMul(cosine, cosine)))), radius)

range_integrand(self, pos, ray_param) ==
  IF self.class = "Cartesian" THEN cart_range_integrand(self, pos, ray_param)
                              ELSE sphr_range_integrand(self, pos, ray_param)

\* 1 / (sound_speed * sqrt(1 - cosine * cosine))
cart_time_integrand(self, depth, ray_param) ==
  LET ss     == cart_sound_speed(self, depth)
      cosine == FMul(ray_param, ss)
  IN FDiv(Q, FMul(ss, FSqrt(FSub(Q, FMul(cosine, cosine)))))

sphr_time_integrand(self, radius, ray_param) ==
  LET ss     == sphr_sound_speed(self, radius)
      cosine == FDiv(FMul(ray_param, ss), radius)
  IN FDiv(Q, FMul(ss, FSqrt(FSub(Q, FMul(cosine, cosine)))))

time_integrand(self, pos, ray_param) ==
  IF self.class = "Cartesian" THEN cart_time_integrand(self, pos, ray_param)
                              ELSE sphr_time_integrand(self, pos, ray_param)

\* ------------------------------------------------------------------------
\* scipy.optimize.bisect(f, a, b): halve the bracket [xa, xa + dm], keeping
\* the half over which f changes sign, until it is below the resolution;
\* only called when f(a) and f(b) have opposite signs.

RECURSIVE bisect_loop(_, _, _, _, _)
bisect_loop(self, ray_param, xa, dm, fa) ==
  LET dm2 == Sign(dm) * (Abs(dm) \div 2)
      xm  == xa + dm2
      fm  == vertex_diff(self, xm, ray_param)
  IN IF fm = 0 \/ Abs(dm) <= 1 THEN xm
     ELSE IF fm * fa >= 0 THEN bisect_loop(self, ray_param, xm, dm - dm2, fa)
     ELSE bisect_loop(self, ray_param, xa, dm2, fa)

bisect(self, a, b, ray_param) ==
  bisect_loop(self, ray_param, a, b - a, vertex_diff(self, a, ray_param))

\* ------------------------------------------------------------------------
\* scipy.integrate.quad(f, a, b): a quadrature rule whose nodes lie strictly
\* inside (a, b) and crowd towards both ends, so that an integrable
\* singularity at an end is integrated.  Node i is a + (b - a) * QuadNode[i],
\* with weight (b - a) * QuadWeight[i].  One sample that is not finite makes
\* the result not finite.

QuadNode == << 112, 923, 2319, 4067, 5933, 7681, 9077, 9888 >>

QuadWeight == << 439, 1143, 1611, 1846, 1846, 1611, 1143, 439 >>

RECURSIVE FSum(_, _)
FSum(f, k) == IF k = 0 THEN 0 ELSE FAdd(FSum(f, k - 1), f[k])

quad_range(self, a, b, ray_param) ==
  LET v == [i \in 1..Len(QuadNode) |->
              FMul(range_integrand(self, a + RDiv((b - a) * QuadNode[i], Q), ray_param),
                   QuadWeight[i])]
  IN IF a = b THEN 0 ELSE FMul(FSum(v, Len(QuadNode)), b - a)

quad_time(self, a, b, ray_param) ==
  LET v == [i \in 1..Len(QuadNode) |->
              FMul(time_integrand(self, a + RDiv((b - a) * QuadNode[i], Q), ray_param),
                   QuadWeight[i])]
  IN IF a = b THEN 0 ELSE FMul(FSum(v, Len(QuadNode)), b - a)

\* ------------------------------------------------------------------------
\* scipy.interpolate.pchip_interpolate(xi, yi, x): the monotone piecewise
\* cubic Hermite interpolant of the nodes (xi, yi), evaluated at each x.
\* The nodes must be at least two, finite and strictly increasing in xi
\* (otherwise ValueError); a query outside [xi[0], xi[-1]] is extrapolated
\* with the cubic of the first or last interval.

Finite(seq) == \A i \in 1..Len(seq) : ~IsNaN(seq[i])

StrictlyIncreasing(seq) == \A i \in 1..(Len(seq) - 1) : seq[i] < seq[i + 1]

pchip_accepts(xi, yi) ==
  /\ Len(xi) >= 2
  /\ Len(xi) = Len(yi)
  /\ Finite(xi)
  /\ Finite(yi)
  /\ StrictlyIncreasing(xi)

\* PchipInterpolator._edge_case: the three-point end derivative, limited
\* so that the end interval keeps its shape
pchip_edge_case(h0, h1, m0, m1) ==
  LET d == FMul(m0, FDiv(2 * h0 + h1, h0 + h1)) - FMul(m1, FDiv(h0, h0 + h1))
  IN IF Sign(d) # Sign(m0) THEN 0
     ELSE IF Sign(m0) # Sign(m1) /\ Abs(d) > 3 * Abs(m0) THEN 3 * m0
     ELSE d

\* PchipInterpolator._find_derivatives: the derivative at every node
pchip_find_derivatives(xi, yi) ==
  LET n  == Len(xi)
      hk == [k \in 1..(n - 1) |-> xi[k + 1] - xi[k]]
      mk == [k \in 1..(n - 1) |-> FDiv(yi[k + 1] - yi[k], hk[k])]
      interior(k) ==
        LET w1 == 2 * hk[k] + hk[k - 1]
            w2 == hk[k] + 2 * hk[k - 1]
        IN IF Sign(mk[k]) # Sign(mk[k - 1]) \/ mk[k] = 0 \/ mk[k - 1] = 0
           THEN 0
           ELSE FDiv(Q, FDiv(FDiv(w1, mk[k - 1]) + FDiv(w2, mk[k]), w1 + w2))
  IN IF n = 2 THEN << mk[1], mk[1] >>
     ELSE [k \in 1..n |->
             IF k = 1 THEN pchip_edge_case(hk[1], hk[2], mk[1], mk[2])
             ELSE IF k = n
               THEN pchip_edge_case(hk[n - 1], hk[n - 2], mk[n - 1], mk[n - 2])
             ELSE interior(k)]

\* the interval a query falls in; the first or the last one when it is outside
pchip_interval(xi, x) ==
  IF x < xi[1] THEN 1
  ELSE IF x >= xi[Len(xi)] THEN Len(xi) - 1
  ELSE CHOOSE k \in 1..(Len(xi) - 1) : xi[k] <= x /\ x < xi[k + 1]

\* CubicHermiteSpline coefficients of interval k, evaluated at x (PPoly.__call__)
pchip_evaluate(xi, yi, dk, x) ==
  LET k     == pchip_interval(xi, x)
      h     == xi[k + 1] - xi[k]
      slope == FDiv(yi[k + 1] - yi[k], h)
      t     == FDiv(dk[k] + dk[k + 1] - 2 * slope, h)
      c0    == FDiv(t, h)
      c1    == FDiv(slope - dk[k], h) - t
      s     == x - xi[k]
      s2    == FMul(s, s)
      s3    == FMul(s2, s)
  IN yi[k] + FMul(dk[k], s) + FMul(c1, s2) + FMul(c0, s3)

\* Mutation of pchip_interpolate: the values at the nodes instead of the
\* values at the queries (one per node, not one per query)
pchip_at_nodes(xi, yi, x) == yi

pchip_interpolate(xi, yi, x) ==
  LET dk == pchip_find_derivatives(xi, yi)
  IN [q \in 1..Len(x) |-> pchip_evaluate(xi, yi, dk, x[q])]

\* ------------------------------------------------------------------------
\* numpy helpers

\* a[mask]: the elements whose mask is TRUE, in order (a new array)
RECURSIVE Select(_, _)
Select(a, mask) ==
  IF Len(a) = 0 THEN << >>
  ELSE LET rest == Select(SubSeq(a, 1, Len(a) - 1), SubSeq(mask, 1, Len(a) - 1))
       IN IF mask[Len(a)] THEN Append(rest, a[Len(a)]) ELSE rest

\* Mutation of argmax: the index before the first occurrence of the maximum
argmax_before(a) ==
  LET i == CHOOSE i \in 1..Len(a) :
             /\ \A j \in 1..Len(a) : a[j] <= a[i]
             /\ \A j \in 1..(i - 1) : a[j] < a[i]
  IN IF i > 1 THEN i - 2 ELSE 0

\* ndarray.argmax() of a non-empty array, 0-based: the first nan if there is
\* one, otherwise the first occurrence of the maximum
argmax(a) ==
  IF \E i \in 1..Len(a) : IsNaN(a[i])
  THEN (CHOOSE i \in 1..Len(a) : IsNaN(a[i]) /\ \A j \in 1..(i - 1) : ~IsNaN(a[j])) - 1
  ELSE (CHOOSE i \in 1..Len(a) :
          /\ \A j \in 1..Len(a) : a[j] <= a[i]
          /\ \A j \in 1..(i - 1) : a[j] < a[i]) - 1

\* a[index] for index = range(start, stop, step), 0-based as in Python
RECURSIVE Take(_, _, _, _)
Take(a, start, stop, step) ==
  IF (step > 0 /\ start >= stop) \/ (step < 0 /\ start <= stop) THEN << >>
  ELSE << a[start + 1] >> \o Take(a, start + step, stop, step)

\* ------------------------------------------------------------------------
\* Bounds of the model and the inputs a caller passes

MaxAngles == 4
MaxRanges == 2

Models == {PedersenCartesian, PedersenSpherical}

\* source and target depths: 800 m and 1000 m
Depths == {8000, 10000}

\* launch angles, up is positive: 0, 20, 30, 40, 45 and 60 degrees
AngleGrid == << 0, 2000, 3000, 4000, 4500, 6000 >>

\* a run of consecutive grid angles, in increasing order, of at most
\* MaxAngles angles (possibly none)
SortedSweeps ==
  {SubSeq(AngleGrid, w[1], w[1] + w[2] - 1) :
     w \in {v \in (1..Len(AngleGrid)) \X (0..MaxAngles) :
              v[1] + v[2] - 1 <= Len(AngleGrid)}}

\* the same angles with the first two exchanged
Exchanged(w) == << w[2], w[1] >> \o SubSeq(w, 3, Len(w))

\* the source_angles a caller passes: any array is accepted, in increasing
\* order or not
Sweeps == SortedSweeps \cup {Exchanged(w) : w \in {v \in SortedSweeps : Len(v) >= 3}}

\* target ranges: 2000 m, 2900 m and 3000 m, in any order, repeats allowed
RangeGrid == {20000, 29000, 30000}

RangeLists == UNION {[1..k -> RangeGrid] : k \in 0..MaxRanges}

\* ------------------------------------------------------------------------
\* State

VARIABLES
  self,              \* the model object eigenrays / analytic_cycle is called on
  method,            \* the method the caller invoked
  arg_source_depth,  \* the caller's arguments; the arrays are the caller's own
  arg_source_angles,
  arg_target_depth,
  arg_target_ranges,
  pc,                \* position in eigenrays (or "analytic_cycle", "done", "raised")
  source_angles,     \* locals of eigenrays
  target_angles,
  target_ranges,
  source_cycle,      \* what analytic_cycle returned for the source side
  target_cycle,      \* what analytic_cycle returned for the target side
  cycle_ranges,
  cycle_times,
  max_index,
  direct,
  folded,
  apc,               \* position in analytic_cycle ("idle" outside a call)
  frame,             \* locals of the running analytic_cycle call
  raised             \* the exception that ended the call, or "none"

vars == << self, method, arg_source_depth, arg_source_angles, arg_target_depth,
           arg_target_ranges, pc, source_angles, target_angles, target_ranges,
           source_cycle, target_cycle, cycle_ranges, cycle_times, max_index,
           direct, folded, apc, frame, raised >>

args == << self, method, arg_source_depth, arg_source_angles, arg_target_depth,
           arg_target_ranges >>

NoCycle == [cycle_ranges |-> << >>, cycle_times |-> << >>,
            vertex |-> << >>, ray_param |-> << >>]

\* class Eigenray: an object without fields until they are assigned
NoEigenray == [range |-> << >>, travel_time |-> << >>,
               source_de |-> << >>, target_de |-> << >>]

\* the locals of analytic_cycle(source_depth, source_angles) on entry
NewFrame(depth, angles) ==
  [source_depth |-> depth, source_angles |-> angles, n |-> 0,
   vertex |-> << >>, cycle_ranges |-> << >>, cycle_times |-> << >>,
   ray_param |-> << >>, bisected |-> << >>]

\* the position of the surface and of a depth in the model's coordinate
surface(obj) == IF obj.class = "Cartesian" THEN 0 ELSE obj.earth_radius

position(obj, depth) ==
  IF obj.class = "Cartesian" THEN depth ELSE obj.earth_radius - depth

Init ==
  /\ self \in Models
  /\ method \in {"eigenrays", "analytic_cycle"}
  /\ arg_source_depth \in Depths
  /\ arg_source_angles \in Sweeps
  /\ arg_target_depth \in IF method = "eigenrays" THEN Depths ELSE {arg_source_depth}
  /\ arg_target_ranges \in IF method = "eigenrays" THEN RangeLists ELSE {<< >>}
  /\ pc = IF method = "eigenrays" THEN "snell" ELSE "analytic_cycle"
  /\ source_angles = arg_source_angles
  /\ target_angles = << >>
  /\ target_ranges = arg_target_ranges
  /\ source_cycle = NoCycle
  /\ target_cycle = NoCycle
  /\ cycle_ranges = << >>
  /\ cycle_times = << >>
  /\ max_index = 0
  /\ direct = NoEigenray
  /\ folded = NoEigenray
  /\ apc = IF method = "eigenrays" THEN "idle" ELSE "init"
  /\ frame = NewFrame(arg_source_depth, arg_source_angles)
  /\ raised = "none"

\* ------------------------------------------------------------------------
\* analytic_cycle(source_depth, source_angles)

\* limits, the result arrays and ray_param (before the loop)
cart_ray_param(obj, depth, angle) ==
  FDiv(CosDeg(angle), cart_sound_speed(obj, depth))

sphr_ray_param(obj, depth, angle) ==
  LET source_radius == obj.earth_radius - depth
  IN FDiv(FMul(source_radius, CosDeg(angle)), sphr_sound_speed(obj, source_radius))

snell_ray_param(obj, depth, angle) ==
  IF obj.class = "Cartesian" THEN cart_ray_param(obj, depth, angle)
                             ELSE sphr_ray_param(obj, depth, angle)

CycleInit ==
  /\ apc = "init"
  /\ LET N == Len(frame.source_angles)
     IN /\ frame' = [frame EXCEPT
                       !.n = 0,
                       !.vertex = [i \in 1..N |-> surface(self)],
                       !.cycle_ranges = [i \in 1..N |-> 0],
                       !.cycle_times = [i \in 1..N |-> 0],
                       !.ray_param = [i \in 1..N |->
                          snell_ray_param(self, frame.source_depth, frame.source_angles[i])],
                       !.bisected = [i \in 1..N |-> FALSE]]
        /\ apc' = IF N = 0 THEN "return" ELSE "vertex"
  /\ UNCHANGED << args, pc, source_angles, target_angles, target_ranges,
                  source_cycle, target_cycle, cycle_ranges, cycle_times,
                  max_index, direct, folded, raised >>

\* Mutation of sign_change: a zero at an end of the bracket counts as a change
sign_change_leq(obj, depth, m) ==
  vertex_diff(obj, surface(obj), m) * vertex_diff(obj, position(obj, depth), m) <= 0

\* dc = vertex_diff(limits, ray_param[n]); bisect only if dc[0] * dc[1] < 0
sign_change(obj, depth, m) ==
  vertex_diff(obj, surface(obj), m) * vertex_diff(obj, position(obj, depth), m) < 0

find_vertex(obj, depth, m, current) ==
  IF sign_change(obj, depth, m)
  THEN bisect(obj, surface(obj), position(obj, depth), m)
  ELSE current

CycleVertex ==
  /\ apc = "vertex"
  /\ LET k == frame.n + 1
         m == frame.ray_param[k]
     IN frame' = [frame EXCEPT
                    !.vertex[k] = find_vertex(self, frame.source_depth, m, @),
                    !.bisected[k] = sign_change(self, frame.source_depth, m)]
  /\ apc' = "range"
  /\ UNCHANGED << args, pc, source_angles, target_angles, target_ranges,
                  source_cycle, target_cycle, cycle_ranges, cycle_times,
                  max_index, direct, folded, raised >>

\* cycle_ranges[n] = 2.0 * quad(range_integrand, vertex, source)[0]
\* (Spherical: from source_radius to vertex_radius, times source_radius)
cart_cycle_range(obj, depth, vertex, m) ==
  FMul(2 * Q, quad_range(obj, vertex, depth, m))

\* Mutation of sphr_cycle_range: the integral of the angle subtended at the
\* earth's centre, not multiplied by source_radius
sphr_cycle_range_unscaled(obj, depth, vertex, m) ==
  LET source_radius == obj.earth_radius - depth
  IN FMul(2 * Q, quad_range(obj, source_radius, vertex, m))

sphr_cycle_range(obj, depth, vertex, m) ==
  LET source_radius == obj.earth_radius - depth
  IN FMul(FMul(2 * Q, quad_range(obj, source_radius, vertex, m)), source_radius)

cycle_range_of(obj, depth, vertex, m) ==
  IF obj.class = "Cartesian" THEN cart_cycle_range(obj, depth, vertex, m)
                             ELSE sphr_cycle_range(obj, depth, vertex, m)

\* Mutation of CycleRange: integrates from the vertex of the neighbouring
\* angle, so that an entry depends on another angle of the array
CycleRangeCarry ==
  /\ apc = "range"
  /\ LET k == frame.n + 1
         j == IF k > 1 THEN k - 1 ELSE Len(frame.source_angles)
     IN frame' = [frame EXCEPT !.cycle_ranges[k] =
           cycle_range_of(self, frame.source_depth, frame.vertex[j], frame.ray_param[k])]
  /\ apc' = "time"
  /\ UNCHANGED << args, pc, source_angles, target_angles, target_ranges,
                  source_cycle, target_cycle, cycle_ranges, cycle_times,
                  max_index, direct, folded, raised >>

CycleRange ==
  /\ apc = "range"
  /\ LET k == frame.n + 1
     IN frame' = [frame EXCEPT !.cycle_ranges[k] =
           cycle_range_of(self, frame.source_depth, frame.vertex[k], frame.ray_param[k])]
  /\ apc' = "time"
  /\ UNCHANGED << args, pc, source_angles, target_angles, target_ranges,
                  source_cycle, target_cycle, cycle_ranges, cycle_times,
                  max_index, direct, folded, raised >>

\* Mutation of cycle_time_of: the Spherical cycle time without the factor 2.0
cycle_time_of_single(obj, depth, vertex, m) ==
  IF obj.class = "Cartesian"
  THEN FMul(2 * Q, quad_time(obj, vertex, depth, m))
  ELSE quad_time(obj, obj.earth_radius - depth, vertex, m)

\* cycle_times[n] = 2.0 * quad(time_integrand, vertex, source)[0]
cycle_time_of(obj, depth, vertex, m) ==
  IF obj.class = "Cartesian"
  THEN FMul(2 * Q, quad_time(obj, vertex, depth, m))
  ELSE FMul(2 * Q, quad_time(obj, obj.earth_radius - depth, vertex, m))

\* Mutation of CycleTime: the time integral starts at the surface, not at
\* the vertex found for the angle
CycleTimeFromSurface ==
  /\ apc = "time"
  /\ LET k == frame.n + 1
     IN frame' = [frame EXCEPT
           !.cycle_times[k] =
              cycle_time_of(self, frame.source_depth, surface(self), frame.ray_param[k]),
           !.n = k]
  /\ apc' = IF frame.n + 1 < Len(frame.source_angles) THEN "vertex" ELSE "return"
  /\ UNCHANGED << args, pc, source_angles, target_angles, target_ranges,
                  source_cycle, target_cycle, cycle_ranges, cycle_times,
                  max_index, direct, folded, raised >>

CycleTime ==
  /\ apc = "time"
  /\ LET k == frame.n + 1
     IN frame' = [frame EXCEPT
           !.cycle_times[k] =
              cycle_time_of(self, frame.source_depth, frame.vertex[k], frame.ray_param[k]),
           !.n = k]
  /\ apc' = IF frame.n + 1 < Len(frame.source_angles) THEN "vertex" ELSE "return"
  /\ UNCHANGED << args, pc, source_angles, target_angles, target_ranges,
                  source_cycle, target_cycle, cycle_ranges, cycle_times,
                  max_index, direct, folded, raised >>

\* return cycle_ranges, cycle_times, vertex_depth, ray_param
Returned ==
  [cycle_ranges |-> frame.cycle_ranges, cycle_times |-> frame.cycle_times,
   vertex |-> frame.vertex, ray_param |-> frame.ray_param]

\* ... to a caller that called analytic_cycle itself
CycleReturn ==
  /\ apc = "return"
  /\ pc = "analytic_cycle"
  /\ source_cycle' = Returned
  /\ apc' = "idle"
  /\ pc' = "done"
  /\ UNCHANGED << args, source_angles, target_angles, target_ranges, target_cycle,
                  cycle_ranges, cycle_times, max_index, direct, folded, frame, raised >>

\* ------------------------------------------------------------------------
\* eigenrays(source_depth, source_angles, target_depth, target_ranges)

\* cos(source_angle) / source_speed * target_speed, the cosine at the target
cart_target_cosine(obj, source_depth, target_depth, angle) ==
  FMul(FDiv(CosDeg(angle), cart_sound_speed(obj, source_depth)),
       cart_sound_speed(obj, target_depth))

\* ... * source_radius / target_radius in Spherical coordinates
sphr_target_cosine(obj, source_depth, target_depth, angle) ==
  LET source_radius == obj.earth_radius - source_depth
      target_radius == obj.earth_radius - target_depth
  IN FDiv(FMul(FMul(FDiv(CosDeg(angle), sphr_sound_speed(obj, source_radius)),
                    sphr_sound_speed(obj, target_radius)),
               source_radius),
          target_radius)

target_cosine(obj, source_depth, target_depth, angle) ==
  IF obj.class = "Cartesian"
  THEN cart_target_cosine(obj, source_depth, target_depth, angle)
  ELSE sphr_target_cosine(obj, source_depth, target_depth, angle)

\* use Snell's Law to estimate target angles for each source ray
Snell ==
  /\ pc = "snell"
  /\ target_angles' = [i \in 1..Len(source_angles) |->
        target_cosine(self, arg_source_depth, arg_target_depth, source_angles[i])]
  /\ pc' = "clip"
  /\ UNCHANGED << args, source_angles, target_ranges, source_cycle, target_cycle,
                  cycle_ranges, cycle_times, max_index, direct, folded, apc,
                  frame, raised >>

\* Mutation of keep_mask: keeps a cosine of exactly 1
keep_mask_leq(cosines) == [i \in 1..Len(cosines) |-> FLeq(cosines[i], Q)]

\* index = target_angles < 1.0
keep_mask(cosines) == [i \in 1..Len(cosines) |-> FLess(cosines[i], Q)]

\* target_angles = -np.degrees(np.arccos(target_angles))
to_degrees(cosines) == [i \in 1..Len(cosines) |-> FSub(0, ArccosDeg(cosines[i]))]

\* Mutation of Clip: the caller's array of launch angles is filtered in place
ClipInPlace ==
  /\ pc = "clip"
  /\ LET index == keep_mask(target_angles)
     IN /\ source_angles' = Select(source_angles, index)
        /\ arg_source_angles' = Select(source_angles, index)
        /\ target_angles' = to_degrees(Select(target_angles, index))
  /\ frame' = NewFrame(arg_source_depth, source_angles')
  /\ apc' = "init"
  /\ pc' = "source_cycle"
  /\ UNCHANGED << self, method, arg_source_depth, arg_target_depth,
                  arg_target_ranges, target_ranges, source_cycle, target_cycle,
                  cycle_ranges, cycle_times, max_index, direct, folded, raised >>

\* clip source and target angles with no eigenrays, then call
\* analytic_cycle(source_depth, source_angles)
Clip ==
  /\ pc = "clip"
  /\ LET index == keep_mask(target_angles)
     IN /\ source_angles' = Select(source_angles, index)
        /\ target_angles' = to_degrees(Select(target_angles, index))
  /\ frame' = NewFrame(arg_source_depth, source_angles')
  /\ apc' = "init"
  /\ pc' = "source_cycle"
  /\ UNCHANGED << args, target_ranges, source_cycle, target_cycle, cycle_ranges,
                  cycle_times, max_index, direct, folded, raised >>

\* the source-side call returns; call analytic_cycle(target_depth, target_angles)
SourceCycleReturn ==
  /\ apc = "return"
  /\ pc = "source_cycle"
  /\ source_cycle' = Returned
  /\ frame' = NewFrame(arg_target_depth, target_angles)
  /\ apc' = "init"
  /\ pc' = "target_cycle"
  /\ UNCHANGED << args, source_angles, target_angles, target_ranges, target_cycle,
                  cycle_ranges, cycle_times, max_index, direct, folded, raised >>

\* the target-side call returns
TargetCycleReturn ==
  /\ apc = "return"
  /\ pc = "target_cycle"
  /\ target_cycle' = Returned
  /\ apc' = "idle"
  /\ pc' = "glue"
  /\ UNCHANGED << args, source_angles, target_angles, target_ranges, source_cycle,
                  cycle_ranges, cycle_times, max_index, direct, folded, frame, raised >>

\* Mutation of half_sum: the sum without the factor 0.5
whole_sum(a, b) == [i \in 1..Len(a) |-> FAdd(a[i], b[i])]

\* 0.5 * (a + b), elementwise
half_sum(a, b) == [i \in 1..Len(a) |-> FMul(Q \div 2, FAdd(a[i], b[i]))]

\* glue source and target cycles together
Glue ==
  /\ pc = "glue"
  /\ cycle_ranges' = half_sum(source_cycle.cycle_ranges, target_cycle.cycle_ranges)
  /\ cycle_times' = half_sum(source_cycle.cycle_times, target_cycle.cycle_times)
  /\ pc' = "split"
  /\ UNCHANGED << args, source_angles, target_angles, target_ranges, source_cycle,
                  target_cycle, max_index, direct, folded, apc, frame, raised >>

\* valid = logical_and(cycle_ranges[0] <= target_ranges,
\*                     target_ranges <= cycle_ranges[max_index])
valid_mask(ranges, nodes, imax) ==
  [q \in 1..Len(ranges) |-> FLeq(nodes[1], ranges[q]) /\ FLeq(ranges[q], nodes[imax + 1])]

\* find break point between direct path and folded paths; argmax of an
\* empty array raises ValueError
Split ==
  /\ pc = "split"
  /\ IF Len(cycle_ranges) = 0
     THEN /\ raised' = "ValueError"
          /\ pc' = "raised"
          /\ UNCHANGED << max_index, target_ranges >>
     ELSE /\ max_index' = argmax(cycle_ranges)
          /\ target_ranges' =
               Select(target_ranges, valid_mask(target_ranges, cycle_ranges, max_index'))
          /\ pc' = "direct"
          /\ UNCHANGED raised
  /\ UNCHANGED << args, source_angles, target_angles, source_cycle, target_cycle,
                  cycle_ranges, cycle_times, direct, folded, apc, frame >>

\* Mutation of direct_index: the sample at the maximum is a direct node as well
direct_index_inclusive(imax) == [start |-> 0, stop |-> imax + 1, step |-> 1]

\* the node indices of the two branches
direct_index(imax) == [start |-> 0, stop |-> imax, step |-> 1]

folded_index(len, imax) == [start |-> len - 1, stop |-> imax - 1, step |-> 0 - 1]

nodes(a, index) == Take(a, index.start, index.stop, index.step)

\* the three pchip_interpolate calls of a branch succeed
branch_accepts(index) ==
  /\ pchip_accepts(nodes(cycle_ranges, index), nodes(cycle_times, index))
  /\ pchip_accepts(nodes(cycle_ranges, index), nodes(source_angles, index))
  /\ pchip_accepts(nodes(cycle_ranges, index), nodes(target_angles, index))

\* Mutation of branch: the branch sorted by increasing range
branch_sorted(index) ==
  LET x == nodes(cycle_ranges, index)
      lt(a, b) == a < b
      r == SortSeq(target_ranges, lt)
  IN [range       |-> r,
      travel_time |-> pchip_interpolate(x, nodes(cycle_times, index), r),
      source_de   |-> pchip_interpolate(x, nodes(source_angles, index), r),
      target_de   |-> pchip_interpolate(x, nodes(target_angles, index), r)]

\* eigenray products as a function of target range on one branch
branch(index) ==
  LET x == nodes(cycle_ranges, index)
  IN [range       |-> target_ranges,
      travel_time |-> pchip_interpolate(x, nodes(cycle_times, index), target_ranges),
      source_de   |-> pchip_interpolate(x, nodes(source_angles, index), target_ranges),
      target_de   |-> pchip_interpolate(x, nodes(target_angles, index), target_ranges)]

\* compute eigenray products as a function of target range for direct path
Direct ==
  /\ pc = "direct"
  /\ IF branch_accepts(direct_index(max_index))
     THEN /\ direct' = branch(direct_index(max_index))
          /\ pc' = "folded"
          /\ UNCHANGED raised
     ELSE /\ raised' = "ValueError"
          /\ pc' = "raised"
          /\ UNCHANGED direct
  /\ UNCHANGED << args, source_angles, target_angles, target_ranges, source_cycle,
                  target_cycle, cycle_ranges, cycle_times, max_index, folded, apc,
                  frame >>

\* compute eigenray products as a function of target range for folded path
Folded ==
  /\ pc = "folded"
  /\ IF branch_accepts(folded_index(Len(source_angles), max_index))
     THEN /\ folded' = branch(folded_index(Len(source_angles), max_index))
          /\ pc' = "return"
          /\ UNCHANGED raised
     ELSE /\ raised' = "ValueError"
          /\ pc' = "raised"
          /\ UNCHANGED folded
  /\ UNCHANGED << args, source_angles, target_angles, target_ranges, source_cycle,
                  target_cycle, cycle_ranges, cycle_times, max_index, direct, apc,
                  frame >>

\* return direct, folded
Return ==
  /\ pc = "return"
  /\ pc' = "done"
  /\ UNCHANGED << args, source_angles, target_angles, target_ranges, source_cycle,
                  target_cycle, cycle_ranges, cycle_times, max_index, direct,
                  folded, apc, frame, raised >>

Next ==
  \/ CycleInit
  \/ CycleVertex
  \/ CycleRange
  \/ CycleTime
  \/ CycleReturn
  \/ Snell
  \/ Clip
  \/ SourceCycleReturn
  \/ TargetCycleReturn
  \/ Glue
  \/ Split
  \/ Direct
  \/ Folded
  \/ Return

Spec == Init /\ [][Next]_vars

\* ------------------------------------------------------------------------
\* Properties of eigenrays() and analytic_cycle()

\* eigenrays() has returned / has ended one way or the other
EigenraysDone == method = "eigenrays" /\ pc = "done"

EigenraysEnded == method = "eigenrays" /\ pc \in {"done", "raised"}

\* the Snell's-law cosine at the target of a launch angle the caller passed
SnellCosine(angle) == target_cosine(self, arg_source_depth, arg_target_depth, angle)

\* the node ranges of the two branches
DirectNodes == nodes(cycle_ranges, direct_index(max_index))

FoldedNodes == nodes(cycle_ranges, folded_index(Len(source_angles), max_index))

\* q lies within [min, max] of the node ranges x
InsideNodes(q, x) ==
  /\ \E i \in 1..Len(x) : FLeq(x[i], q)
  /\ \E i \in 1..Len(x) : FLeq(q, x[i])

\* the subsequence of ranges that lie within [min, max] of the node ranges x
WithinNodes(ranges, x) ==
  LET inside(q) == InsideNodes(q, x)
  IN SelectSeq(ranges, inside)

NonDecreasing(seq) == \A i \in 1..(Len(seq) - 1) : seq[i] <= seq[i + 1]

EmptyBranch(b) ==
  /\ Len(b.range) = 0
  /\ Len(b.travel_time) = 0
  /\ Len(b.source_de) = 0
  /\ Len(b.target_de) = 0

\* C1: when the Snell's-law filter discards every launch angle, eigenrays()
\* returns normally with both branches empty and raises no error.
C1_AllDiscardedReturnsEmpty ==
  (/\ EigenraysEnded
   /\ Len(arg_source_angles) > 0
   /\ \A i \in 1..Len(arg_source_angles) : ~(SnellCosine(arg_source_angles[i]) < Q))
  => (pc = "done" /\ raised = "none" /\ EmptyBranch(direct) /\ EmptyBranch(folded))

\* C2: every target range at which a branch's interpolant is evaluated lies
\* within [min, max] of that branch's node ranges, on the direct branch and
\* on the folded branch.
C2_QueriesInsideBranchNodes ==
  /\ (method = "eigenrays" /\ pc \in {"folded", "return", "done"})
       => \A q \in 1..Len(target_ranges) : InsideNodes(target_ranges[q], DirectNodes)
  /\ (method = "eigenrays" /\ pc \in {"return", "done"})
       => \A q \in 1..Len(target_ranges) : InsideNodes(target_ranges[q], FoldedNodes)

\* C3: the filter removes exactly the launch angles whose target cosine is
\* >= 1 and keeps those with cosine < 1, in their original order, with
\* target_angles[i] the target angle of source_angles[i]; filtering raises
\* no exception.
C3_FilterKeepsCosineBelowOne ==
  LET below_one(a) == SnellCosine(a) < Q
  IN /\ (method = "eigenrays" /\ pc \notin {"snell", "clip"})
          => /\ source_angles = SelectSeq(arg_source_angles, below_one)
             /\ Len(target_angles) = Len(source_angles)
             /\ \A i \in 1..Len(source_angles) :
                   target_angles[i] = FSub(0, ArccosDeg(SnellCosine(source_angles[i])))
     /\ (method = "eigenrays" /\ pc \in {"snell", "clip", "source_cycle"})
          => raised = "none"

C3_SomeDiscardedSomeKept ==
  /\ method = "eigenrays"
  /\ pc = "source_cycle"
  /\ Len(source_angles) >= 1
  /\ Len(source_angles) < Len(arg_source_angles)

\* C4: each returned branch's range array is exactly the subsequence, in the
\* caller's order, of the requested target_ranges that fall inside
\* [min, max] of that same branch's node ranges.
C4_BranchRangeIsOwnDomainSubsequence ==
  EigenraysDone =>
    /\ direct.range = WithinNodes(arg_target_ranges, DirectNodes)
    /\ folded.range = WithinNodes(arg_target_ranges, FoldedNodes)

\* C5: eigenrays() raises no exception whenever at least one launch angle
\* survives the filter, wherever the maximum composite cycle range falls.
C5_NoExceptionWhenAnAngleSurvives ==
  (EigenraysEnded /\ Len(source_angles) >= 1) => (pc = "done" /\ raised = "none")

\* C6: each of the two branch records eigenrays() returns holds four
\* parallel arrays (range, travel time, source angle, target angle) of
\* equal length.
C6_BranchArraysParallel ==
  EigenraysDone =>
    \A b \in {direct, folded} :
      /\ Len(b.travel_time) = Len(b.range)
      /\ Len(b.source_de) = Len(b.range)
      /\ Len(b.target_de) = Len(b.range)

C6_ReturnedSomeEigenrays == EigenraysDone /\ Len(direct.range) >= 1

OppositeSigns(k) ==
  LET m  == frame.ray_param[k]
      d0 == vertex_diff(self, surface(self), m)
      d1 == vertex_diff(self, position(self, frame.source_depth), m)
  IN (d0 < 0 /\ d1 > 0) \/ (d0 > 0 /\ d1 < 0)

\* v is within the bracket [surface, anchor]
InBracket(v, depth) ==
  IF surface(self) <= position(self, depth)
  THEN surface(self) <= v /\ v <= position(self, depth)
  ELSE position(self, depth) <= v /\ v <= surface(self)

\* the vertex difference changes sign within the resolution of the search
RootAt(v, m) ==
  vertex_diff(self, v - 1, m) * vertex_diff(self, v + 1, m) <= 0

\* C8: without a sign change of the vertex difference over the bracket the
\* vertex is the surface boundary itself and no root search is run; with a
\* sign change the vertex is the root the search finds inside the bracket;
\* no error is raised either way.
C8_VertexTruncationPolicy ==
  apc = "return" =>
    /\ raised = "none"
    /\ \A k \in 1..Len(frame.source_angles) :
         IF OppositeSigns(k)
         THEN /\ frame.bisected[k]
              /\ InBracket(frame.vertex[k], frame.source_depth)
              /\ RootAt(frame.vertex[k], frame.ray_param[k])
         ELSE /\ ~frame.bisected[k]
              /\ frame.vertex[k] = surface(self)

C8_BothPoliciesTaken ==
  /\ apc = "return"
  /\ \E k \in 1..Len(frame.source_angles) : frame.bisected[k]
  /\ \E k \in 1..Len(frame.source_angles) :
       ~frame.bisected[k] /\ frame.vertex[k] = surface(self)

\* C9: every entry analytic_cycle() returns has range >= 0 and its vertex
\* between the anchor position and the surface boundary, inclusive.
C9_RangeNonNegativeVertexInBracket ==
  (method = "analytic_cycle" /\ pc = "done") =>
    \A k \in 1..Len(source_cycle.cycle_ranges) :
      /\ FLeq(0, source_cycle.cycle_ranges[k])
      /\ InBracket(source_cycle.vertex[k], arg_source_depth)

\* what analytic_cycle computes for one launch angle on its own
CycleEntry(obj, depth, angle) ==
  LET m == snell_ray_param(obj, depth, angle)
      v == find_vertex(obj, depth, m, surface(obj))
  IN [cycle_range |-> cycle_range_of(obj, depth, v, m),
      cycle_time  |-> cycle_time_of(obj, depth, v, m),
      vertex      |-> v,
      ray_param   |-> m]

\* C10: analytic_cycle() given N launch angles returns four parallel arrays
\* of length N; entry n is determined by angle n, the anchor depth and the
\* model configuration alone, and entry order equals input order.
C10_EntriesPerAngle ==
  /\ apc = "return" =>
       LET N == Len(frame.source_angles)
       IN /\ Len(Returned.cycle_ranges) = N
          /\ Len(Returned.cycle_times) = N
          /\ Len(Returned.vertex) = N
          /\ Len(Returned.ray_param) = N
          /\ \A n \in 1..N :
               LET e == CycleEntry(self, frame.source_depth, frame.source_angles[n])
               IN /\ Returned.cycle_ranges[n] = e.cycle_range
                  /\ Returned.cycle_times[n] = e.cycle_time
                  /\ Returned.vertex[n] = e.vertex
                  /\ Returned.ray_param[n] = e.ray_param
  /\ (method = "analytic_cycle" /\ pc = "done") =>
       /\ Len(source_cycle.cycle_ranges) = Len(arg_source_angles)
       /\ \A n \in 1..Len(arg_source_angles) :
            source_cycle.cycle_ranges[n] =
              CycleEntry(self, arg_source_depth, arg_source_angles[n]).cycle_range

C10_SeveralAnglesReturned ==
  /\ method = "analytic_cycle"
  /\ pc = "done"
  /\ Len(arg_source_angles) >= 3
  /\ source_cycle.vertex[1] # source_cycle.vertex[2]
  /\ source_cycle.cycle_ranges[2] # source_cycle.cycle_ranges[3]

\* ------------------------------------------------------------------------
\* The loop of analytic_cycle with its iterations run as concurrent tasks:
\* task k runs the body of the loop for n = k - 1 (find the vertex, integrate
\* the range, integrate the time) and the tasks interleave step by step,
\* without locking.  frame.task[k] is the position of task k.

ParInit ==
  /\ self \in Models
  /\ method = "analytic_cycle"
  /\ arg_source_depth \in Depths
  /\ arg_source_angles \in Sweeps
  /\ arg_target_depth = arg_source_depth
  /\ arg_target_ranges = << >>
  /\ pc = "analytic_cycle"
  /\ source_angles = arg_source_angles
  /\ target_angles = << >>
  /\ target_ranges = arg_target_ranges
  /\ source_cycle = NoCycle
  /\ target_cycle = NoCycle
  /\ cycle_ranges = << >>
  /\ cycle_times = << >>
  /\ max_index = 0
  /\ direct = NoEigenray
  /\ folded = NoEigenray
  /\ apc = "parallel"
  /\ LET N == Len(arg_source_angles)
     IN frame = [source_depth |-> arg_source_depth,
                 source_angles |-> arg_source_angles,
                 n |-> 0,
                 vertex |-> [i \in 1..N |-> surface(self)],
                 cycle_ranges |-> [i \in 1..N |-> 0],
                 cycle_times |-> [i \in 1..N |-> 0],
                 ray_param |-> [i \in 1..N |->
                    snell_ray_param(self, arg_source_depth, arg_source_angles[i])],
                 bisected |-> [i \in 1..N |-> FALSE],
                 task |-> [i \in 1..N |-> "vertex"]]
  /\ raised = "none"

\* Mutation of TaskRange: integrates from the vertex of the neighbouring
\* task, a value another task writes
TaskRangeCarry(k) ==
  /\ apc = "parallel"
  /\ k \in 1..Len(frame.source_angles)
  /\ frame.task[k] = "range"
  /\ LET j == IF k > 1 THEN k - 1 ELSE Len(frame.source_angles)
     IN frame' = [frame EXCEPT
           !.cycle_ranges[k] =
              cycle_range_of(self, frame.source_depth, frame.vertex[j], frame.ray_param[k]),
           !.task[k] = "time"]
  /\ UNCHANGED << args, pc, source_angles, target_angles, target_ranges,
                  source_cycle, target_cycle, cycle_ranges, cycle_times,
                  max_index, direct, folded, apc, raised >>

\* task k: dc = vertex_diff(limits, ray_param[n]); bisect on a sign change
TaskVertex(k) ==
  /\ apc = "parallel"
  /\ k \in 1..Len(frame.source_angles)
  /\ frame.task[k] = "vertex"
  /\ LET m == frame.ray_param[k]
     IN frame' = [frame EXCEPT
                    !.vertex[k] = find_vertex(self, frame.source_depth, m, @),
                    !.bisected[k] = sign_change(self, frame.source_depth, m),
                    !.task[k] = "range"]
  /\ UNCHANGED << args, pc, source_angles, target_angles, target_ranges,
                  source_cycle, target_cycle, cycle_ranges, cycle_times,
                  max_index, direct, folded, apc, raised >>

\* task k: cycle_ranges[n] = 2.0 * quad(range_integrand, ...)[0]
TaskRange(k) ==
  /\ apc = "parallel"
  /\ k \in 1..Len(frame.source_angles)
  /\ frame.task[k] = "range"
  /\ frame' = [frame EXCEPT
        !.cycle_ranges[k] =
           cycle_range_of(self, frame.source_depth, frame.vertex[k], frame.ray_param[k]),
        !.task[k] = "time"]
  /\ UNCHANGED << args, pc, source_angles, target_angles, target_ranges,
                  source_cycle, target_cycle, cycle_ranges, cycle_times,
                  max_index, direct, folded, apc, raised >>

\* task k: cycle_times[n] = 2.0 * quad(time_integrand, ...)[0]
TaskTime(k) ==
  /\ apc = "parallel"
  /\ k \in 1..Len(frame.source_angles)
  /\ frame.task[k] = "time"
  /\ frame' = [frame EXCEPT
        !.cycle_times[k] =
           cycle_time_of(self, frame.source_depth, frame.vertex[k], frame.ray_param[k]),
        !.task[k] = "joined"]
  /\ UNCHANGED << args, pc, source_angles, target_angles, target_ranges,
                  source_cycle, target_cycle, cycle_ranges, cycle_times,
                  max_index, direct, folded, apc, raised >>

\* every task has finished: the loop is over
ParJoin ==
  /\ apc = "parallel"
  /\ \A k \in 1..Len(frame.source_angles) : frame.task[k] = "joined"
  /\ apc' = "return"
  /\ UNCHANGED << args, pc, source_angles, target_angles, target_ranges,
                  source_cycle, target_cycle, cycle_ranges, cycle_times,
                  max_index, direct, folded, frame, raised >>

ParNext ==
  \/ \E k \in 1..MaxAngles : TaskVertex(k)
  \/ \E k \in 1..MaxAngles : TaskRange(k)
  \/ \E k \in 1..MaxAngles : TaskTime(k)
  \/ ParJoin
  \/ CycleReturn

ParSpec == ParInit /\ [][ParNext]_vars

\* C11: with the iterations of the loop of analytic_cycle run as concurrent
\* tasks in any interleaving, without locking, the four result arrays are
\* those of the sequential loop: a task writes only its own index, so the
\* entries of a task that has not run are still the initial ones and the
\* entries of a task that has finished are what the loop computes for that
\* angle.
C11_InterleavingsMatchSequentialLoop ==
  /\ apc \in {"parallel", "return"} =>
       \A k \in 1..Len(frame.source_angles) :
         LET e == CycleEntry(self, frame.source_depth, frame.source_angles[k])
         IN /\ frame.ray_param[k] = e.ray_param
            /\ frame.task[k] = "vertex" =>
                 /\ frame.vertex[k] = surface(self)
                 /\ frame.cycle_ranges[k] = 0
                 /\ frame.cycle_times[k] = 0
            /\ frame.task[k] \in {"range", "time", "joined"} =>
                 frame.vertex[k] = e.vertex
            /\ frame.task[k] \in {"time", "joined"} =>
                 frame.cycle_ranges[k] = e.cycle_range
            /\ frame.task[k] = "joined" => frame.cycle_times[k] = e.cycle_time
  /\ pc = "done" =>
       /\ Len(source_cycle.cycle_ranges) = Len(arg_source_angles)
       /\ \A k \in 1..Len(arg_source_angles) :
            LET e == CycleEntry(self, arg_source_depth, arg_source_angles[k])
            IN /\ source_cycle.cycle_ranges[k] = e.cycle_range
               /\ source_cycle.cycle_times[k] = e.cycle_time
               /\ source_cycle.vertex[k] = e.vertex
               /\ source_cycle.ray_param[k] = e.ray_param

\* a later task has finished while an earlier one has not started
C11_TasksOutOfOrder ==
  /\ apc = "parallel"
  /\ Len(frame.source_angles) >= 3
  /\ frame.task[1] = "vertex"
  /\ frame.task[2] = "time"
  /\ frame.task[3] = "joined"
  /\ frame.vertex[2] # frame.vertex[3]

\* the composite cycle ranges have been computed and split at max_index,
\* with at least one angle on either side of the maximum
SpansBothBranches ==
  /\ method = "eigenrays"
  /\ pc \in {"direct", "folded", "return", "done", "raised"}
  /\ Len(cycle_ranges) >= 3
  /\ 0 < max_index
  /\ max_index < Len(cycle_ranges) - 1

\* one global maximum, at 0-based index imax: strictly increasing up to it,
\* strictly decreasing from it
SingleMaximum(a, imax) ==
  /\ \A i \in 1..imax : FLess(a[i], a[i + 1])
  /\ \A i \in (imax + 1)..(Len(a) - 1) : FLess(a[i + 1], a[i])

CartesianEntry(depth, angle) ==
  CycleEntry([PedersenCartesian EXCEPT !.surface_speed = self.surface_speed,
                                       !.surface_grad = self.surface_grad],
             depth, angle)

SphericalEntry(depth, angle) ==
  CycleEntry([PedersenSpherical EXCEPT !.surface_speed = self.surface_speed,
                                       !.surface_grad = self.surface_grad],
             depth, angle)

\* anchor depth / earth_radius, the size of the earth-flattening correction
Flattening(depth) == FDiv(depth, PedersenSpherical.earth_radius)

\* the entry of the running call is the one of its own coordinate system
OwnEntry(k) ==
  LET e == IF self.class = "Cartesian"
           THEN CartesianEntry(frame.source_depth, frame.source_angles[k])
           ELSE SphericalEntry(frame.source_depth, frame.source_angles[k])
  IN /\ frame.cycle_ranges[k] = e.cycle_range
     /\ frame.cycle_times[k] = e.cycle_time

\* 0.5 m and 0.5 ms
HalfMetre == 5

HalfMillisecond == 5

GluedCycles(obj, source_depth, angles, target_depth) ==
  LET cosines == [i \in 1..Len(angles) |->
                    target_cosine(obj, source_depth, target_depth, angles[i])]
      sa == Select(angles, keep_mask(cosines))
      ta == to_degrees(Select(cosines, keep_mask(cosines)))
      src == [i \in 1..Len(sa) |-> CycleEntry(obj, source_depth, sa[i])]
      tgt == [i \in 1..Len(ta) |-> CycleEntry(obj, target_depth, ta[i])]
  IN [source_angles |-> sa,
      target_angles |-> ta,
      cycle_ranges  |-> half_sum([i \in 1..Len(sa) |-> src[i].cycle_range],
                                 [i \in 1..Len(sa) |-> tgt[i].cycle_range]),
      cycle_times   |-> half_sum([i \in 1..Len(sa) |-> src[i].cycle_time],
                                 [i \in 1..Len(sa) |-> tgt[i].cycle_time])]

\* the split at the longest cycle and the two interpolated branches
\* (eigenrays from the split to the return)
BranchesOf(g, ranges) ==
  LET cr == g.cycle_ranges
      imax == argmax(cr)
      tr == Select(ranges, valid_mask(ranges, cr, imax))
      accepts(idx) ==
        /\ pchip_accepts(nodes(cr, idx), nodes(g.cycle_times, idx))
        /\ pchip_accepts(nodes(cr, idx), nodes(g.source_angles, idx))
        /\ pchip_accepts(nodes(cr, idx), nodes(g.target_angles, idx))
      products(idx) ==
        [range       |-> tr,
         travel_time |-> pchip_interpolate(nodes(cr, idx), nodes(g.cycle_times, idx), tr),
         source_de   |-> pchip_interpolate(nodes(cr, idx), nodes(g.source_angles, idx), tr),
         target_de   |-> pchip_interpolate(nodes(cr, idx), nodes(g.target_angles, idx), tr)]
  IN IF Len(cr) = 0 THEN [raised |-> "ValueError"]
     ELSE IF accepts(direct_index(imax))
             /\ accepts(folded_index(Len(g.source_angles), imax))
       THEN [raised |-> "none",
             direct |-> products(direct_index(imax)),
             folded |-> products(folded_index(Len(g.source_angles), imax))]
     ELSE [raised |-> "ValueError"]

\* what eigenrays(source_depth, angles, target_depth, ranges) returns on the
\* model obj: the glued cycles are computed once, then split
EigenraysOf(obj, source_depth, angles, target_depth, ranges) ==
  CHOOSE r \in {BranchesOf(g, ranges) :
                  g \in {GluedCycles(obj, source_depth, angles, target_depth)}} : TRUE

\* the caller's call on a Cartesian and on a Spherical model of the same
\* surface speed and gradient
CartesianEigenrays ==
  EigenraysOf([PedersenCartesian EXCEPT !.surface_speed = self.surface_speed,
                                        !.surface_grad = self.surface_grad],
              arg_source_depth, arg_source_angles, arg_target_depth, arg_target_ranges)

SphericalEigenrays ==
  EigenraysOf([PedersenSpherical EXCEPT !.surface_speed = self.surface_speed,
                                        !.surface_grad = self.surface_grad],
              arg_source_depth, arg_source_angles, arg_target_depth, arg_target_ranges)

\* the call that has returned is the one of its own coordinate system
OwnEigenrays ==
  LET own == IF self.class = "Cartesian" THEN CartesianEigenrays ELSE SphericalEigenrays
  IN own.raised = "none" /\ own.direct = direct /\ own.folded = folded

\* both calls return and the Spherical branch can be interpolated onto the
\* ranges of the Cartesian branch, as test_analytic_eigenrays does
Comparable(c, z) ==
  /\ c.raised = "none"
  /\ z.raised = "none"
  /\ Len(c.direct.range) >= 1
  /\ pchip_accepts(z.direct.range, z.direct.travel_time)

\* the largest difference between a Cartesian branch and the Spherical
\* branch interpolated onto its ranges is within tol, for one product
WithinTolerance(cx, cy, zx, zy, tol) ==
  LET zi == pchip_interpolate(zx, zy, cx)
  IN \A q \in 1..Len(cx) : Abs(cy[q] - zi[q]) <= tol

\* 0.001 s and 0.1 degree
TimeTolerance == 10

AngleTolerance == 10

HarnessFields == {"horz_range", "travel_time", "source_de", "target_de"}

\* C15: the direct and the folded record returned by eigenrays() carry the
\* four fields the comparison harness reads: horz_range, travel_time,
\* source_de and target_de.
C15_RecordsExposeHarnessFields ==
  EigenraysDone =>
    /\ HarnessFields \subseteq DOMAIN direct
    /\ HarnessFields \subseteq DOMAIN folded

\* ------------------------------------------------------------------------
\* A caller's session: one model is constructed, then its methods are
\* called one after the other.  Each call is recorded with its result.

\* the most calls the caller makes on one object
MaxCalls == 3

\* surface speeds the constructor is given: 1550 m/s and -1550 m/s
SurfaceSpeeds == {surface_speed_default, 0 - surface_speed_default}

\* gradients the constructor is given: 1.2 and -1.2
SurfaceGrads == {surface_grad_default, 0 - surface_grad_default}

\* the sweeps and the ranges the caller holds during the session
SessionSweeps == {<< 3000, 4000, 4500, 6000 >>, << 4000, 3000 >>}

SessionRanges == << 29000, 30000 >>

\* 1 + 2 * surface_grad / surface_speed * depth is positive at the surface
\* and at the depths of the domain, and the surface speed is positive
Physical(surface_speed, surface_grad) ==
  /\ surface_speed > 0
  /\ \A depth \in Depths \cup {0} :
       FLess(0, FAdd(Q, FMul(FDiv(2 * surface_grad, surface_speed), depth)))

SessionInit ==
  /\ self \in {[class |-> "Cartesian"], [class |-> "Spherical"]}
  /\ method = "__init__"
  /\ arg_source_depth \in Depths
  /\ arg_source_angles \in SessionSweeps
  /\ arg_target_depth = arg_source_depth
  /\ arg_target_ranges = SessionRanges
  /\ pc = "new"
  /\ source_angles = << >>
  /\ target_angles = << >>
  /\ target_ranges = << >>
  /\ source_cycle = NoCycle
  /\ target_cycle = NoCycle
  /\ cycle_ranges = << >>
  /\ cycle_times = << >>
  /\ max_index = 0
  /\ direct = NoEigenray
  /\ folded = NoEigenray
  /\ apc = "idle"
  /\ \E c0 \in SurfaceSpeeds, g0 \in SurfaceGrads :
       frame = [surface_speed |-> c0, surface_grad |-> g0,
                earth_radius |-> IF self.class = "Cartesian" THEN 0
                                 ELSE earth_radius_config,
                calls |-> << >>]
  /\ raised = "none"

\* __init__(self, surface_speed, surface_grad[, earth_radius]): the
\* parameters are stored
Construct ==
  /\ pc = "new"
  /\ self' = [class |-> self.class, surface_speed |-> frame.surface_speed,
              surface_grad |-> frame.surface_grad,
              earth_radius |-> frame.earth_radius]
  /\ pc' = "ready"
  /\ UNCHANGED << method, arg_source_depth, arg_source_angles, arg_target_depth,
                  arg_target_ranges, source_angles, target_angles, target_ranges,
                  source_cycle, target_cycle, cycle_ranges, cycle_times,
                  max_index, direct, folded, apc, frame, raised >>

\* the record of one call
Called(name, inputs, result) ==
  /\ pc = "ready"
  /\ Len(frame.calls) < MaxCalls
  /\ method' = name
  /\ frame' = [frame EXCEPT !.calls =
                 Append(@, [method |-> name, inputs |-> inputs, result |-> result])]
  /\ UNCHANGED << arg_source_depth, arg_source_angles, arg_target_depth,
                  arg_target_ranges, pc, source_angles, target_angles,
                  target_ranges, source_cycle, target_cycle, cycle_ranges,
                  cycle_times, max_index, direct, folded, apc, raised >>

\* Mutation of CallSoundSpeed: the speed computed last is kept in the object
CallSoundSpeedKept ==
  \E depth \in {0, arg_source_depth} :
    LET pos == position(self, depth)
    IN /\ Called("sound_speed", << pos >>, sound_speed(self, pos))
       /\ self' = [self EXCEPT !.surface_speed = sound_speed(self, pos)]

\* sound_speed(depth) at the surface or at the source
CallSoundSpeed ==
  \E depth \in {0, arg_source_depth} :
    LET pos == position(self, depth)
    IN /\ Called("sound_speed", << pos >>, sound_speed(self, pos))
       /\ UNCHANGED self

\* vertex_diff(depth, ray_param) at the surface or at the source, for the
\* ray launched from the source at the first angle of the sweep
CallVertexDiff ==
  \E depth \in {0, arg_source_depth} :
    LET pos == position(self, depth)
        ray_param == snell_ray_param(self, arg_source_depth, arg_source_angles[1])
    IN /\ Called("vertex_diff", << pos, ray_param >>, vertex_diff(self, pos, ray_param))
       /\ UNCHANGED self

\* analytic_cycle(source_depth, source_angles); the caller passes cycles
\* to a model with a physical profile only
CallAnalyticCycle ==
  /\ pc = "ready"
  /\ Physical(self.surface_speed, self.surface_grad)
  /\ Called("analytic_cycle", << arg_source_depth, arg_source_angles >>,
            [i \in 1..Len(arg_source_angles) |->
               CycleEntry(self, arg_source_depth, arg_source_angles[i])])
  /\ UNCHANGED self

\* eigenrays(source_depth, source_angles, target_depth, target_ranges)
CallEigenrays ==
  /\ pc = "ready"
  /\ Physical(self.surface_speed, self.surface_grad)
  /\ Called("eigenrays",
            << arg_source_depth, arg_source_angles, arg_target_depth, arg_target_ranges >>,
            EigenraysOf(self, arg_source_depth, arg_source_angles,
                        arg_target_depth, arg_target_ranges))
  /\ UNCHANGED self

SessionNext ==
  \/ Construct
  \/ CallSoundSpeed
  \/ CallVertexDiff
  \/ CallAnalyticCycle
  \/ CallEigenrays

SessionSpec == SessionInit /\ [][SessionNext]_vars

\* C16: a model constructed with a non-positive surface speed, or with a
\* gradient that makes 1 + 2*g0*z/c0 non-positive in the domain, is rejected
\* at construction: the object is never ready for a call and no call on it
\* is evaluated.
C16_NonPhysicalRejectedAtConstruction ==
  ~Physical(frame.surface_speed, frame.surface_grad) =>
    /\ pc # "ready"
    /\ Len(frame.calls) = 0

C18_CallsLeaveModelAndInputs ==
  [][/\ self' = self
     /\ arg_source_angles' = arg_source_angles
     /\ arg_target_ranges' = arg_target_ranges]_vars

\* eigenrays() has ended after discarding a launch angle and a target range
\* in its own arrays
C18_FilteredAndClipped ==
  /\ EigenraysEnded
  /\ 0 < Len(source_angles)
  /\ Len(source_angles) < Len(arg_source_angles)
  /\ Len(target_ranges) < Len(arg_target_ranges)

\* x lies within [min, max] of the values of seq
WithinValues(x, seq) ==
  /\ \E i \in 1..Len(seq) : FLeq(seq[i], x)
  /\ \E i \in 1..Len(seq) : FLeq(x, seq[i])

\* C19: in a returned branch every travel time is finite and every
\* interpolated source angle lies within [min, max] of the launch angles
\* that survived filtering, for every clipped query range.
C19_TimesFiniteAnglesWithinSweep ==
  EigenraysDone =>
    \A b \in {direct, folded} :
      \A q \in 1..Len(b.range) :
        /\ ~IsNaN(b.travel_time[q])
        /\ WithinValues(b.source_de[q], source_angles)

\* C20: for a downward-refracting profile (surface_grad > 0) vertex_diff is
\* positive at a position above the vertex and negative at a position below
\* it: for a ray whose vertex analytic_cycle found between the surface and
\* the anchor, positive at the surface and negative at the anchor.
C20_PositiveAboveNegativeBelow ==
  (apc = "return" /\ self.surface_grad > 0) =>
    \A k \in 1..Len(frame.source_angles) :
      frame.bisected[k] =>
        /\ vertex_diff(self, surface(self), frame.ray_param[k]) > 0
        /\ vertex_diff(self, position(self, frame.source_depth), frame.ray_param[k]) < 0

\* C21: whenever analytic_cycle() leaves the vertex of an angle at the
\* surface boundary, vertex_diff has no zero in [surface, anchor], the ends
\* of the bracket included: it is non-zero at the surface and at the anchor
\* and has the same sign at both.
C21_TruncatedRayNeverHorizontal ==
  apc = "return" =>
    \A k \in 1..Len(frame.source_angles) :
      (~frame.bisected[k] /\ frame.vertex[k] = surface(self)) =>
        LET m  == frame.ray_param[k]
            d0 == vertex_diff(self, surface(self), m)
            d1 == vertex_diff(self, position(self, frame.source_depth), m)
        IN /\ d0 # 0
           /\ d1 # 0
           /\ Sign(d0) = Sign(d1)

\* seq in reversed order
RECURSIVE Reverse(_)
Reverse(seq) ==
  IF Len(seq) = 0 THEN << >> ELSE Reverse(Tail(seq)) \o << Head(seq) >>

\* eigenrays() is past the split of a non-empty surviving sweep
SplitTaken ==
  /\ method = "eigenrays"
  /\ pc \in {"direct", "folded", "return", "done", "raised"}
  /\ Len(cycle_ranges) >= 1

\* the direct nodes followed by the folded nodes read backwards are the
\* array a itself
SplitsExactly(a) ==
  nodes(a, direct_index(max_index))
    \o Reverse(nodes(a, folded_index(Len(source_angles), max_index))) = a

\* C22: the split at the index of the maximum composite range makes every
\* surviving sample a node of exactly one branch: the direct nodes are the
\* samples before the maximum in ascending index order, the folded nodes the
\* samples from the last down to and including the maximum; when the
\* composite ranges have a single maximum both node sequences have strictly
\* increasing range.
C22_SplitPartitionsSweep ==
  SplitTaken =>
    /\ max_index = argmax(cycle_ranges)
    /\ SplitsExactly(cycle_ranges)
    /\ SplitsExactly(cycle_times)
    /\ SplitsExactly(source_angles)
    /\ SplitsExactly(target_angles)
    /\ Len(DirectNodes) = max_index
    /\ Len(FoldedNodes) = Len(cycle_ranges) - max_index
    /\ FoldedNodes[Len(FoldedNodes)] = cycle_ranges[max_index + 1]
    /\ SingleMaximum(cycle_ranges, max_index) =>
         /\ StrictlyIncreasing(DirectNodes)
         /\ StrictlyIncreasing(FoldedNodes)

\* a returned call whose sweep has a single maximum with samples on both
\* sides of it
C22_SplitWithBothBranches ==
  /\ pc = "done"
  /\ SpansBothBranches
  /\ SingleMaximum(cycle_ranges, max_index)
  /\ Len(DirectNodes) >= 2
  /\ Len(FoldedNodes) >= 2

\* eigenrays() is past the gluing of the source and target cycles
Glued == method = "eigenrays" /\ pc \in {"split", "direct", "folded", "return", "done", "raised"}

\* c is the arithmetic mean of a and b (to the last digit; not a number if
\* either is not a number)
MeanOf(c, a, b) ==
  IF IsNaN(a) \/ IsNaN(b) THEN IsNaN(c)
  ELSE ~IsNaN(c) /\ Abs(2 * c - (a + b)) <= 1

\* C23: for every surviving angle index i the composite range and time are
\* the arithmetic mean of the cycle analytic_cycle computes at the source
\* depth for source_angles[i] and the cycle it computes at the target depth
\* for target_angles[i]; the two sides have the same length.
C23_CompositeIsMeanOfBothSides ==
  Glued =>
    /\ Len(source_cycle.cycle_ranges) = Len(source_angles)
    /\ Len(target_cycle.cycle_ranges) = Len(source_angles)
    /\ Len(source_cycle.cycle_times) = Len(target_cycle.cycle_times)
    /\ Len(cycle_ranges) = Len(source_angles)
    /\ Len(cycle_times) = Len(source_angles)
    /\ \A i \in 1..Len(source_angles) :
         LET src == CycleEntry(self, arg_source_depth, source_angles[i])
             tgt == CycleEntry(self, arg_target_depth, target_angles[i])
         IN /\ MeanOf(cycle_ranges[i], src.cycle_range, tgt.cycle_range)
            /\ MeanOf(cycle_times[i], src.cycle_time, tgt.cycle_time)

\* a returned call whose source and target sides differ
C23_GluedDifferentSides ==
  /\ pc = "done"
  /\ method = "eigenrays"
  /\ arg_source_depth # arg_target_depth
  /\ Len(cycle_ranges) >= 3
  /\ \A i \in 1..Len(cycle_ranges) :
       source_cycle.cycle_ranges[i] # target_cycle.cycle_ranges[i]

\* the entries of index k in the arrays c of analytic_cycle(depth, ...): an
\* integral that has been evaluated (the arrays start as zeros) was taken
\* from the vertex the search leaves for the angle, which is the entry of
\* the vertex array
IntegralsFromOwnVertex(c, depth, k) ==
  LET v == find_vertex(self, depth, c.ray_param[k], surface(self))
  IN /\ c.cycle_ranges[k] # 0 =>
          /\ c.vertex[k] = v
          /\ c.cycle_ranges[k] = cycle_range_of(self, depth, c.vertex[k], c.ray_param[k])
     /\ c.cycle_times[k] # 0 =>
          /\ c.vertex[k] = v
          /\ c.cycle_ranges[k] # 0
          /\ c.cycle_times[k] = cycle_time_of(self, depth, c.vertex[k], c.ray_param[k])

\* C24: within analytic_cycle(), for each angle n the vertex search has
\* finished before either integral of angle n is evaluated, both integrals
\* use that vertex as their limit, and that vertex is the one returned in
\* the vertex array, during the loop and in the arrays returned.
C24_VertexBeforeIntegrals ==
  /\ apc \in {"vertex", "range", "time"} =>
       \A k \in {frame.n, frame.n + 1} \cap (1..Len(frame.cycle_ranges)) :
         IntegralsFromOwnVertex(frame, frame.source_depth, k)
  /\ apc = "return" =>
       \A k \in 1..Len(frame.cycle_ranges) :
         /\ IntegralsFromOwnVertex(frame, frame.source_depth, k)
         /\ frame.cycle_ranges[k] # 0
         /\ frame.cycle_times[k] # 0
  /\ ((method = "analytic_cycle" /\ pc = "done") \/ (pc = "target_cycle" /\ apc = "init")) =>
       \A k \in 1..Len(source_cycle.cycle_ranges) :
         /\ IntegralsFromOwnVertex(source_cycle, arg_source_depth, k)
         /\ source_cycle.cycle_ranges[k] # 0
         /\ source_cycle.cycle_times[k] # 0
  /\ pc = "glue" =>
       \A k \in 1..Len(target_cycle.cycle_ranges) :
         /\ IntegralsFromOwnVertex(target_cycle, arg_target_depth, k)
         /\ target_cycle.cycle_ranges[k] # 0
         /\ target_cycle.cycle_times[k] # 0

\* analytic_cycle() has returned arrays whose vertices were all found by
\* the search
C24_ReturnedSearchedVertices ==
  /\ method = "analytic_cycle"
  /\ pc = "done"
  /\ Len(source_cycle.vertex) >= 2
  /\ \A k \in 1..Len(source_cycle.vertex) :
       /\ source_cycle.vertex[k] # surface(self)
       /\ ~IsNaN(source_cycle.cycle_times[k])

\* ------------------------------------------------------------------------
\* The comparison harness: it calls eigenrays() once and then modifies an
\* array of a returned record in place (travel_time -= slope * range).
\* Arrays are objects: frame maps each array object to its contents, and the
\* fields of the records direct and folded hold references to objects.

\* the array objects eigenrays() binds to the fields of a record: range is
\* bound to the local target_ranges, the other fields to the arrays the
\* pchip_interpolate calls return
RecordOf(name) ==
  [range       |-> "target_ranges[valid]",
   travel_time |-> name \o ".travel_time",
   source_de   |-> name \o ".source_de",
   target_de   |-> name \o ".target_de"]

EigenrayFields == {"range", "travel_time", "source_de", "target_de"}

\* the array objects alive when eigenrays() has returned r: the caller's
\* target_ranges, the clipped copy, and the interpolated products
HeapOf(r) ==
  [ref \in {"target_ranges", "target_ranges[valid]"}
           \cup {RecordOf("direct")[f] : f \in EigenrayFields}
           \cup {RecordOf("folded")[f] : f \in EigenrayFields} |->
     IF ref = "target_ranges" THEN arg_target_ranges
     ELSE IF ref = "target_ranges[valid]" THEN r.direct.range
     ELSE IF ref = "direct.travel_time" THEN r.direct.travel_time
     ELSE IF ref = "direct.source_de" THEN r.direct.source_de
     ELSE IF ref = "direct.target_de" THEN r.direct.target_de
     ELSE IF ref = "folded.travel_time" THEN r.folded.travel_time
     ELSE IF ref = "folded.source_de" THEN r.folded.source_de
     ELSE r.folded.target_de]

HarnessInit ==
  /\ self \in Models
  /\ method = "eigenrays"
  /\ arg_source_depth \in Depths
  /\ arg_source_angles \in SessionSweeps
  /\ arg_target_depth \in Depths
  /\ arg_target_ranges \in RangeLists
  /\ pc = "call"
  /\ source_angles = << >>
  /\ target_angles = << >>
  /\ target_ranges = << >>
  /\ source_cycle = NoCycle
  /\ target_cycle = NoCycle
  /\ cycle_ranges = << >>
  /\ cycle_times = << >>
  /\ max_index = 0
  /\ direct = NoEigenray
  /\ folded = NoEigenray
  /\ apc = "idle"
  /\ frame = [ref \in {"target_ranges"} |-> arg_target_ranges]
  /\ raised = "none"

\* direct, folded = eigenrays(source_depth, source_angles, target_depth,
\*                            target_ranges)
HarnessCall ==
  /\ pc = "call"
  /\ \E r \in {EigenraysOf(self, arg_source_depth, arg_source_angles,
                           arg_target_depth, arg_target_ranges)} :
       IF r.raised = "none"
       THEN /\ direct' = RecordOf("direct")
            /\ folded' = RecordOf("folded")
            /\ frame' = HeapOf(r)
            /\ pc' = "returned"
            /\ UNCHANGED raised
       ELSE /\ raised' = r.raised
            /\ pc' = "raised"
            /\ UNCHANGED << direct, folded, frame >>
  /\ UNCHANGED << args, source_angles, target_angles, target_ranges, source_cycle,
                  target_cycle, cycle_ranges, cycle_times, max_index, apc >>

\* record.field -= 1.0: the array object the field refers to is modified in
\* place
InPlace(name, field) ==
  /\ pc = "returned"
  /\ LET record == IF name = "direct" THEN direct ELSE folded
     IN frame' = [frame EXCEPT ![record[field]] =
                    [i \in 1..Len(@) |-> FSub(@[i], Q)]]
  /\ method' = name \o "." \o field \o " -="
  /\ pc' = "modified"
  /\ UNCHANGED << self, arg_source_depth, arg_source_angles, arg_target_depth,
                  arg_target_ranges, source_angles, target_angles, target_ranges,
                  source_cycle, target_cycle, cycle_ranges, cycle_times,
                  max_index, direct, folded, apc, raised >>

HarnessNext ==
  \/ HarnessCall
  \/ \E name \in {"direct", "folded"}, field \in EigenrayFields : InPlace(name, field)

HarnessSpec == HarnessInit /\ [][HarnessNext]_vars

\* the arrays a record's fields refer to
Contents(record) == [f \in EigenrayFields |-> frame[record[f]]]

\* the record the harness modified last is the direct one
ModifiedDirect == method \in {"direct." \o f \o " -=" : f \in EigenrayFields}

\* C25: the direct and the folded record of one eigenrays() call are
\* independent values: after an array of one record has been modified in
\* place, every array of the other record still has the contents eigenrays()
\* returned, and so has the caller's target_ranges.
C25_RecordsIndependent ==
  pc = "modified" =>
    LET r == EigenraysOf(self, arg_source_depth, arg_source_angles,
                         arg_target_depth, arg_target_ranges)
    IN /\ frame["target_ranges"] = arg_target_ranges
       /\ IF ModifiedDirect
          THEN Contents(folded) = [f \in EigenrayFields |-> r.folded[f]]
          ELSE Contents(direct) = [f \in EigenrayFields |-> r.direct[f]]

\* ------------------------------------------------------------------------
\* test_analytic_cycles: the two assertions on the arrays the Cartesian and
\* the Spherical analytic_cycle returned.  The model's Spherical profile has
\* too strong a curvature for differences near the tolerances, so the
\* returned arrays are drawn from cases around them.

\* the most launch angles the test passes
MaxTested == 2

\* one launch angle's results: a cycle of 3401.4 m and 4.3581 s in Cartesian
\* coordinates (20 degrees from 2000 m), the Spherical range below and the
\* Spherical time above it by a difference under or over the tolerance, or
\* not a number in both (launch angle 0)
TestedRanges ==
  {<< 34014, 34014 - d >> : d \in {1, 3, 6}} \cup {<< NaN, NaN >>}

TestedTimes ==
  {<< 43581, 43581 + d >> : d \in {3, 12}} \cup {<< NaN, NaN >>}

TestedCases ==
  {c \in TestedRanges \X TestedTimes : IsNaN(c[1][1]) <=> IsNaN(c[2][1])}

TestedArrays ==
  UNION {[1..n -> TestedCases] : n \in 1..MaxTested}

CycleTestInit ==
  /\ self = PedersenCartesian
  /\ method = "test_analytic_cycles"
  /\ arg_source_depth \in Depths
  /\ arg_source_angles = << >>
  /\ arg_target_depth = arg_source_depth
  /\ arg_target_ranges = << >>
  /\ pc = "assert_ranges"
  /\ source_angles = << >>
  /\ target_angles = << >>
  /\ target_ranges = << >>
  /\ source_cycle = NoCycle
  /\ target_cycle = NoCycle
  /\ cycle_ranges = << >>
  /\ cycle_times = << >>
  /\ max_index = 0
  /\ direct = NoEigenray
  /\ folded = NoEigenray
  /\ apc = "idle"
  /\ \E a \in TestedArrays :
       frame = [cart_cycle_ranges |-> [i \in 1..Len(a) |-> a[i][1][1]],
                sphr_cycle_ranges |-> [i \in 1..Len(a) |-> a[i][1][2]],
                cart_cycle_times  |-> [i \in 1..Len(a) |-> a[i][2][1]],
                sphr_cycle_times  |-> [i \in 1..Len(a) |-> a[i][2][2]]]
  /\ raised = "none"

\* np.abs(a - b).max() of non-empty arrays: nan if any difference is nan
MaxAbsDiff(a, b) ==
  IF \E i \in 1..Len(a) : IsNaN(FSub(a[i], b[i])) THEN NaN
  ELSE CHOOSE d \in {Abs(a[i] - b[i]) : i \in 1..Len(a)} :
         \A i \in 1..Len(a) : Abs(a[i] - b[i]) <= d

\* self.assertLess(first, second) passes
assertLess(first, second) == FLess(first, second)

CycleTestUnchanged ==
  UNCHANGED << args, source_angles, target_angles, target_ranges, source_cycle,
               target_cycle, cycle_ranges, cycle_times, max_index, direct,
               folded, apc, frame >>

\* self.assertLess(np.abs(cart_cycle_ranges - sphr_cycle_ranges).max(), 0.5)
AssertRanges ==
  /\ pc = "assert_ranges"
  /\ IF assertLess(MaxAbsDiff(frame.cart_cycle_ranges, frame.sphr_cycle_ranges), HalfMetre)
     THEN pc' = "assert_times" /\ UNCHANGED raised
     ELSE pc' = "failed" /\ raised' = "AssertionError"
  /\ CycleTestUnchanged

\* self.assertLess(np.abs(cart_cycle_times - cart_cycle_times).max(), 0.5e-3)
AssertTimes ==
  /\ pc = "assert_times"
  /\ IF assertLess(MaxAbsDiff(frame.cart_cycle_times, frame.cart_cycle_times),
                   HalfMillisecond)
     THEN pc' = "passed" /\ UNCHANGED raised
     ELSE pc' = "failed" /\ raised' = "AssertionError"
  /\ CycleTestUnchanged

CycleTestNext == AssertRanges \/ AssertTimes

CycleTestSpec == CycleTestInit /\ [][CycleTestNext]_vars

\* C26: test_analytic_cycles fails whenever the largest difference between
\* the Cartesian and the Spherical cycle ranges exceeds 0.5 m, and whenever
\* the largest difference between the Cartesian and the Spherical cycle
\* times exceeds 0.5 ms.
C26_TestFailsBeyondTolerance ==
  pc \in {"passed", "failed"} =>
    /\ FLess(HalfMetre, MaxAbsDiff(frame.cart_cycle_ranges, frame.sphr_cycle_ranges))
         => pc = "failed"
    /\ FLess(HalfMillisecond, MaxAbsDiff(frame.cart_cycle_times, frame.sphr_cycle_times))
         => pc = "failed"

\* ---------------------------------------------------------------------
\* usml.eigenrays.wq3d_eigenrays: select the rays of one acoustic path
\* from an eigenray file
\* ---------------------------------------------------------------------

\* Largest number of target rows in a file, and of rays of one target
MaxTargets == 2
MaxRays == 2

\* earth_radius = 6378101.030201019, in metres
earth_radius == 6378101

\* Latitudes are in millidegrees, phases in the file in milliradians
source_latitude == 45000
LatitudeStep == 10

\* The kinds of path a file holds: a direct refracted path, a refracted
\* path through a caustic, a surface-reflected path and a bottom bounce
RayKinds ==
  { [surface |-> 0, bottom |-> 0, caustic |-> 0, upper |-> 1, lower |-> 0,
     phase |-> 0, source_de |-> 2500, target_de |-> 0 - 2500],
    [surface |-> 0, bottom |-> 0, caustic |-> 1, upper |-> 1, lower |-> 0,
     phase |-> 0 - 1571, source_de |-> 4000, target_de |-> 0 - 4000],
    [surface |-> 1, bottom |-> 0, caustic |-> 0, upper |-> 0, lower |-> 0,
     phase |-> 3142, source_de |-> 1800, target_de |-> 1800],
    [surface |-> 0, bottom |-> 1, caustic |-> 0, upper |-> 0, lower |-> 1,
     phase |-> 0, source_de |-> 0 - 3000, target_de |-> 0 - 3000] }

\* The rays of one target, and the rows of a file (one column of targets)
TargetRays == UNION {[1..k -> RayKinds] : k \in 0..MaxRays}
Files == UNION {[1..r -> TargetRays] : r \in 1..MaxTargets}

\* Ray n of the target of a row as the file stores it: every ray of a file
\* has its own travel time, and a positive transmission loss
FileRay(kind, row, n) ==
  [travel_time |-> 10000 * row + 100 * n,
   source_de |-> kind.source_de, target_de |-> kind.target_de,
   intensity |-> 60 + 10 * row + n, phase |-> kind.phase,
   surface |-> kind.surface, bottom |-> kind.bottom, caustic |-> kind.caustic,
   upper |-> kind.upper, lower |-> kind.lower]

\* usml.netcdf.EigenrayList(filename): the source latitude, the matrix of
\* target latitudes and the list of rays of each target
EigenrayList(file) ==
  [source_latitude |-> source_latitude,
   latitude  |-> [r \in 1..Len(file) |-> << source_latitude + LatitudeStep * r >>],
   eigenrays |-> [r \in 1..Len(file) |->
                    << [n \in 1..Len(file[r]) |-> FileRay(file[r][n], r, n)] >>]]

\* usml.netcdf.Eigenrays() with the empty lists of lines 28-40
Eigenrays ==
  [horz_range |-> << >>, travel_time |-> << >>, source_de |-> << >>,
   target_de |-> << >>, intensity |-> << >>, phase |-> << >>,
   bottom |-> << >>, surface |-> << >>, caustic |-> << >>,
   upper |-> << >>, lower |-> << >>]

\* The selection: srf and btm are numbers, upr, lwr and phase are optional,
\* << >> for None and << v >> for a value
Selections ==
  [srf : {0, 1}, btm : {0, 1}, upr : {<< >>, << 1 >>}, lwr : {<< >>, << 0 >>},
   phase : {<< >>, << 0 - 90 >>}]

\* round to the nearest integer of a / b, b positive
RoundDiv(a, b) == (2 * a + b) \div (2 * b)

\* np.round(np.degrees(x)) of a phase in milliradians, in degrees
model_phase(x) == RoundDiv(x * 180000, 3141593)

\* np.radians(latitude - source_latitude) * earth_radius, in metres
HorzRange(latitude, source) ==
  (RoundDiv((latitude - source) * 17453, 1000) * (earth_radius \div 10)) \div 100000

Wq3dInit ==
  /\ self = PedersenCartesian
  /\ method = "wq3d_eigenrays"
  /\ arg_source_depth = 0
  /\ arg_source_angles = << >>
  /\ arg_target_depth = 0
  /\ arg_target_ranges = << >>
  /\ pc = "loop"
  /\ source_angles = << >>
  /\ target_angles = << >>
  /\ target_ranges = << >>
  /\ source_cycle = NoCycle
  /\ target_cycle = NoCycle
  /\ cycle_ranges = << >>
  /\ cycle_times = << >>
  /\ max_index = 0
  /\ direct = NoEigenray
  /\ folded = NoEigenray
  /\ apc = "idle"
  /\ \E file \in Files, sel \in Selections :
       frame = [model |-> EigenrayList(file), srf |-> sel.srf, btm |-> sel.btm,
                upr |-> sel.upr, lwr |-> sel.lwr, phase |-> sel.phase,
                row |-> 1, col |-> 1, n |-> 1, rays |-> Eigenrays]
  /\ raised = "none"

Wq3dUnchanged ==
  UNCHANGED << args, source_angles, target_angles, target_ranges, source_cycle,
               target_cycle, cycle_ranges, cycle_times, max_index, direct,
               folded, apc, raised >>

\* The target the loops of lines 42-43 are at
InLoop ==
  /\ pc = "loop"
  /\ frame.row <= Len(frame.model.eigenrays)
  /\ frame.col <= Len(frame.model.eigenrays[frame.row])

\* ok of lines 52-60 for one ray of the file
ok(ray, f) ==
  /\ ray.surface = f.srf
  /\ ray.bottom = f.btm
  /\ f.upr # << >> => ray.upper = f.upr[1]
  /\ f.lwr # << >> => ray.lower = f.lwr[1]
  /\ f.phase # << >> => model_phase(ray.phase) = f.phase[1]

\* The appends of lines 63-74 for a selected ray
Selected(rays, ray) ==
  LET model_btm == ray.bottom IN
  [rays EXCEPT !.travel_time = Append(@, ray.travel_time),
               !.source_de = Append(@, ray.source_de),
               !.target_de = Append(@, ray.target_de),
               !.intensity = Append(@, 0 - ray.intensity),
               !.phase = Append(@, model_phase(ray.phase)),
               !.bottom = Append(@, model_btm),
               !.surface = Append(@, model_btm),
               !.caustic = Append(@, model_btm),
               !.upper = Append(@, model_btm),
               !.lower = Append(@, model_btm)]

\* One pass of the loop of line 44 over the rays of a target
VisitRay ==
  /\ InLoop
  /\ frame.n <= Len(frame.model.eigenrays[frame.row][frame.col])
  /\ LET ray == frame.model.eigenrays[frame.row][frame.col][frame.n] IN
       frame' = [frame EXCEPT !.n = @ + 1,
                              !.rays = IF ok(ray, frame) THEN Selected(@, ray) ELSE @]
  /\ UNCHANGED pc
  /\ Wq3dUnchanged

\* The rays of a target are exhausted: the next target of the row, or the
\* next row (lines 42-43)
NextTarget ==
  /\ InLoop
  /\ frame.n > Len(frame.model.eigenrays[frame.row][frame.col])
  /\ frame' = IF frame.col < Len(frame.model.eigenrays[frame.row])
              THEN [frame EXCEPT !.col = @ + 1, !.n = 1]
              ELSE [frame EXCEPT !.row = @ + 1, !.col = 1, !.n = 1]
  /\ UNCHANGED pc
  /\ Wq3dUnchanged

\* After the loops: horz_range from the first column of the latitudes
\* (line 76), the lists become arrays (lines 77-88), return rays
Wq3dReturn ==
  /\ pc = "loop"
  /\ frame.row > Len(frame.model.eigenrays)
  /\ frame' = [frame EXCEPT !.rays.horz_range =
                 [r \in 1..Len(frame.model.latitude) |->
                    HorzRange(frame.model.latitude[r][1], frame.model.source_latitude)]]
  /\ pc' = "done"
  /\ Wq3dUnchanged

Wq3dNext == VisitRay \/ NextTarget \/ Wq3dReturn

Wq3dSpec == Wq3dInit /\ [][Wq3dNext]_vars

\* The row of the file whose target holds the ray with a travel time
RowOfTime(t) ==
  CHOOSE r \in 1..Len(frame.model.eigenrays) :
    \E c \in 1..Len(frame.model.eigenrays[r]) :
      \E n \in 1..Len(frame.model.eigenrays[r][c]) :
        frame.model.eigenrays[r][c][n].travel_time = t

\* The ray of the file with a travel time
RayOfTime(t) ==
  LET r == RowOfTime(t) IN
  CHOOSE ray \in UNION {{frame.model.eigenrays[r][c][n] :
                           n \in 1..Len(frame.model.eigenrays[r][c])} :
                        c \in 1..Len(frame.model.eigenrays[r])} :
    ray.travel_time = t

\* C27: for every ray wq3d_eigenrays selects, the returned surface, bottom,
\* caustic, upper and lower arrays hold that ray's own counts at the index
\* of its travel_time.
C27_CountsAreTheRaysOwn ==
  (method = "wq3d_eigenrays" /\ pc = "done") =>
    \A i \in 1..Len(frame.rays.travel_time) :
      LET ray == RayOfTime(frame.rays.travel_time[i]) IN
        /\ Len(frame.rays.surface) = Len(frame.rays.travel_time)
        /\ frame.rays.surface[i] = ray.surface
        /\ frame.rays.bottom[i] = ray.bottom
        /\ frame.rays.caustic[i] = ray.caustic
        /\ frame.rays.upper[i] = ray.upper
        /\ frame.rays.lower[i] = ray.lower

\* The lists a selected ray is appended to have one length
ParallelArrays(rays) ==
  \A name \in {"source_de", "target_de", "intensity", "phase"} :
    Len(rays[name]) = Len(rays.travel_time)

\* C28: the record wq3d_eigenrays returns is a bundle of parallel arrays:
\* horz_range is as long as travel_time, source_de, target_de, intensity
\* and phase, and horz_range[i] is the range of the target ray i belongs to,
\* for any file and any selection.
C28_HorzRangeParallelToRays ==
  (method = "wq3d_eigenrays" /\ pc = "done") =>
    /\ ParallelArrays(frame.rays)
    /\ Len(frame.rays.horz_range) = Len(frame.rays.travel_time)
    /\ \A i \in 1..Len(frame.rays.travel_time) :
         frame.rays.horz_range[i] =
           HorzRange(frame.model.latitude[RowOfTime(frame.rays.travel_time[i])][1],
                     frame.model.source_latitude)

====
